---- MODULE Spec2Model ----
(***************************************************************************)
(* Model of src/deep_research/agent.py: the entry-point script             *)
(* (__main__), its output-directory clean-up, the retry wrapper            *)
(* run_with_retry and the message report loop.                             *)
(*                                                                         *)
(* The agent (deepagents / langchain) is external: an invocation either    *)
(* returns a result holding a message sequence or raises, and while it     *)
(* runs it may write files into the output directory.  Python exceptions   *)
(* are modelled by their class as far as the handlers can tell them apart: *)
(* "Exception" (caught by `except Exception`) and "BaseException" (a       *)
(* KeyboardInterrupt, SystemExit or asyncio.CancelledError, which          *)
(* `except Exception` lets through).                                       *)
(***************************************************************************)
EXTENDS Integers, Sequences, FiniteSets, TLC

\* ---------------------------------------------------------------- bounds
\* Largest max_retries explored.  The script calls run_with_retry with the
\* default; the parameter ranges over 0..MaxRetries to cover every caller.
MaxRetries == 3
\* Longest message sequence an invocation returns.
MaxMsgs == 2
\* Most tool calls carried by one agent-authored message.
MaxCalls == 1

\* ------------------------------------------------------ program constants
\* run_with_retry(agent, messages, max_retries=3)
DefaultMaxRetries == 3
\* await asyncio.sleep(2)
RetryDelay == 2

\* ------------------------------------------------------------- file names
\* A file name of the output directory, split as pathlib does.
FileName(stem, suffix) == [stem |-> stem, suffix |-> suffix]

research_request_path == FileName("research_request", ".md")
final_report_path == FileName("final_report", ".md")

\* The names a directory listing of research_outputs may hold.
Files ==
    { research_request_path, final_report_path,
      FileName("notes", ".md"), FileName("data", ".txt") }

\* The files the agent is instructed to save with write_file.
AgentFiles == { research_request_path, final_report_path }

\* Variant of Glob: only the two report files are matched.
GlobNamedOnly(d) == d \cap AgentFiles

\* research_output_dir.glob("*.md")
Glob(d) == { f \in d : f.suffix = ".md" }

\* ---------------------------------------------------------------- messages
\* An argument mapping, as a set of <<key, value>> pairs.
WriteArgs(path) == { <<"file_path", path>>, <<"content", "...">> }

ToolCall(name, args) == [name |-> name, args |-> args]

\* The tool calls a message may carry.  The report loop tells write_file
\* from every other name; "task" stands for the other names, which change
\* nothing but the text printed.
ToolCalls ==
    { ToolCall("write_file", WriteArgs("/final_report.md")),
      ToolCall("write_file", WriteArgs("/research_request.md")),
      ToolCall("task", { <<"description", "topic">> }) }

BoundedSeq(S, n) == UNION { [1..k -> S] : k \in 0..n }

\* type: the class of the message object.  "SystemMessage" stands for every
\* langchain_core message class that is none of the three the report tests.
\* has_tool_calls: hasattr(msg, 'tool_calls').
Message(type, has, calls) ==
    [type |-> type, has_tool_calls |-> has, tool_calls |-> calls]

Messages ==
    { Message(t, FALSE, <<>>) :
        t \in {"HumanMessage", "ToolMessage", "SystemMessage"} }
    \cup { Message("AIMessage", FALSE, <<>>) }
    \cup { Message("AIMessage", TRUE, c) : c \in BoundedSeq(ToolCalls, MaxCalls) }

MessageSeqs == BoundedSeq(Messages, MaxMsgs)

\* ------------------------------------------------------------------ errors
ErrKinds == {"Exception", "BaseException"}

Error(kind, origin, n) == [kind |-> kind, origin |-> origin, attempt |-> n]

NoError == Error("none", "none", 0)

\* The value of `result`: None, or the mapping returned by attempt n.
Result(n, msgs) == [isNone |-> FALSE, attempt |-> n, messages |-> msgs]

None == [isNone |-> TRUE, attempt |-> 0, messages |-> <<>>]

NoSummary == [printed |-> FALSE, human |-> 0, ai |-> 0, tool |-> 0, write_file |-> 0]

VARIABLES
    pc,               \* position in the script
    dir,              \* names in research_outputs
    initOther,        \* the names without the .md suffix when the script started
    max_retries,      \* run_with_retry's parameter
    attempt,          \* the for loop's variable
    calls,            \* agent.ainvoke calls started so far
    outstanding,      \* agent.ainvoke calls started and not yet completed
    sleeps,           \* asyncio.sleep calls completed
    slept,            \* time spent in asyncio.sleep
    outcomes,         \* outcome of each completed invocation, in order
    logged,           \* "Attempt n failed" lines printed
    rwr,              \* run_with_retry: "none", "running", "returned", "raised"
    result,           \* the value run_with_retry returned
    exc,              \* the exception being propagated or handled
    idx,              \* report loop: index of the next message
    human_count,
    ai_count,
    tool_count,
    write_file_calls,
    summary,          \* the counts printed by the summary block
    caught,           \* times the outermost except clause ran
    diagnosis         \* whether the DIAGNOSIS block was printed

vars ==
    << pc, dir, initOther, max_retries, attempt, calls, outstanding, sleeps, slept,
       outcomes, logged, rwr, result, exc, idx, human_count, ai_count, tool_count,
       write_file_calls, summary, caught, diagnosis >>

retryVars == << attempt, calls, outstanding, sleeps, slept, outcomes, logged, rwr >>

reportVars == << idx, human_count, ai_count, tool_count, write_file_calls, summary >>

Init ==
    /\ pc = "mkdir"
    /\ dir \in SUBSET Files
    /\ initOther = dir \ Glob(dir)
    /\ max_retries \in 0..MaxRetries
    /\ attempt = 0
    /\ calls = 0
    /\ outstanding = 0
    /\ sleeps = 0
    /\ slept = 0
    /\ outcomes = <<>>
    /\ logged = 0
    /\ rwr = "none"
    /\ result = None
    /\ exc = NoError
    /\ idx = 0
    /\ human_count = 0
    /\ ai_count = 0
    /\ tool_count = 0
    /\ write_file_calls = <<>>
    /\ summary = NoSummary
    /\ caught = 0
    /\ diagnosis = FALSE

\* -------------------------------------------------- set-up and clean-up
\* research_output_dir.mkdir(parents=True, exist_ok=True), outside the try.
MakeOutputDir ==
    /\ pc = "mkdir"
    /\ \E fails \in BOOLEAN :
         IF fails
         THEN /\ pc' = "crashed"
              /\ exc' = Error("Exception", "mkdir", 0)
         ELSE /\ pc' = "cleanup"
              /\ exc' = exc
    /\ UNCHANGED << dir, initOther, max_retries, result, caught, diagnosis >>
    /\ UNCHANGED retryVars
    /\ UNCHANGED reportVars

\* One iteration of `for file in glob("*.md"): file.unlink()`, outside the try.
CleanUp ==
    /\ pc = "cleanup"
    /\ \E file \in Glob(dir) :
         \E fails \in BOOLEAN :
           IF fails
           THEN /\ pc' = "crashed"
                /\ exc' = Error("Exception", "unlink", 0)
                /\ dir' = dir
           ELSE /\ pc' = "cleanup"
                /\ exc' = exc
                /\ dir' = dir \ {file}
    /\ UNCHANGED << initOther, max_retries, result, caught, diagnosis >>
    /\ UNCHANGED retryVars
    /\ UNCHANGED reportVars

\* The clean-up loop is exhausted; the try block calls run_with_retry.
EnterTry ==
    /\ pc = "cleanup"
    /\ Glob(dir) = {}
    /\ pc' = "loop"
    /\ rwr' = "running"
    /\ attempt' = 0
    /\ UNCHANGED << dir, initOther, max_retries, calls, outstanding, sleeps, slept,
                    outcomes, logged, result, exc, caught, diagnosis >>
    /\ UNCHANGED reportVars

\* ---------------------------------------------------------- run_with_retry
\* Variant of HasAttempt: range(max_retries + 1).
HasAttemptInclusive(a, m) == a <= m

\* `for attempt in range(max_retries)`: is there an iteration for a?
HasAttempt(a, m) == a < m

\* Variant of IsFinalAttempt: compares with max_retries.
IsFinalAttemptNever(a, m) == a = m

\* `if attempt == max_retries - 1`
IsFinalAttempt(a, m) == a = m - 1

\* Variant of Catches: a bare `except:` clause.
CatchesAll(kind) == kind \in ErrKinds

\* `except Exception`: does the clause catch an error of this class?
Catches(kind) == kind = "Exception"

\* The loop body starts: print, then agent.ainvoke is called and awaited.
InvokeAgent ==
    /\ pc = "loop"
    /\ HasAttempt(attempt, max_retries)
    /\ calls' = calls + 1
    /\ outstanding' = outstanding + 1
    /\ pc' = "awaiting"
    /\ UNCHANGED << dir, initOther, max_retries, attempt, sleeps, slept, outcomes,
                    logged, rwr, result, exc, caught, diagnosis >>
    /\ UNCHANGED reportVars

\* The range is exhausted without a return or raise: `return None`.
ReturnNone ==
    /\ pc = "loop"
    /\ ~HasAttempt(attempt, max_retries)
    /\ result' = None
    /\ rwr' = "returned"
    /\ pc' = "report"
    /\ UNCHANGED << dir, initOther, max_retries, attempt, calls, outstanding, sleeps,
                    slept, outcomes, logged, exc, caught, diagnosis >>
    /\ UNCHANGED reportVars

\* While the invocation is outstanding the agent saves a file through its
\* filesystem backend, rooted at research_outputs.
AgentWritesFile ==
    /\ pc = "awaiting"
    /\ \E f \in AgentFiles \ dir : dir' = dir \cup {f}
    /\ UNCHANGED << pc, initOther, max_retries, result, exc, caught, diagnosis >>
    /\ UNCHANGED retryVars
    /\ UNCHANGED reportVars

\* Variant of InvokeSucceeds: the result is kept but the loop goes on.
InvokeSucceedsNoReturn ==
    /\ pc = "awaiting"
    /\ \E msgs \in MessageSeqs :
         result' = Result(calls, msgs)
    /\ outstanding' = outstanding - 1
    /\ outcomes' = Append(outcomes, "ok")
    /\ attempt' = attempt + 1
    /\ pc' = "loop"
    /\ UNCHANGED << dir, initOther, max_retries, calls, sleeps, slept, logged, rwr,
                    exc, caught, diagnosis >>
    /\ UNCHANGED reportVars

\* ainvoke completes: `result = await ...; return result`.
InvokeSucceeds ==
    /\ pc = "awaiting"
    /\ \E msgs \in MessageSeqs :
         result' = Result(calls, msgs)
    /\ outstanding' = outstanding - 1
    /\ outcomes' = Append(outcomes, "ok")
    /\ rwr' = "returned"
    /\ pc' = "report"
    /\ UNCHANGED << dir, initOther, max_retries, attempt, calls, sleeps, slept,
                    logged, exc, caught, diagnosis >>
    /\ UNCHANGED reportVars

\* ainvoke raises.  An Exception enters the handler, which prints the failure;
\* anything else passes this clause and the outermost one and leaves the script.
InvokeRaises ==
    /\ pc = "awaiting"
    /\ \E kind \in ErrKinds :
         /\ outcomes' = Append(outcomes, kind)
         /\ exc' = Error(kind, "ainvoke", calls)
         /\ IF Catches(kind)
            THEN /\ logged' = logged + 1
                 /\ pc' = "handler"
                 /\ rwr' = rwr
            ELSE /\ logged' = logged
                 /\ pc' = "crashed"
                 /\ rwr' = "raised"
    /\ outstanding' = outstanding - 1
    /\ UNCHANGED << dir, initOther, max_retries, attempt, calls, sleeps, slept,
                    result, caught, diagnosis >>
    /\ UNCHANGED reportVars

\* In the handler, the final attempt: `raise`, which reaches the outermost
\* except clause of the script.
Reraise ==
    /\ pc = "handler"
    /\ IsFinalAttempt(attempt, max_retries)
    /\ rwr' = "raised"
    /\ pc' = "except"
    /\ UNCHANGED << dir, initOther, max_retries, attempt, calls, outstanding, sleeps,
                    slept, outcomes, logged, result, exc, caught, diagnosis >>
    /\ UNCHANGED reportVars

\* Variant of SleepThenRetry: the next iteration starts at once.
RetryWithoutSleep ==
    /\ pc = "handler"
    /\ ~IsFinalAttempt(attempt, max_retries)
    /\ attempt' = attempt + 1
    /\ exc' = NoError
    /\ pc' = "loop"
    /\ UNCHANGED << dir, initOther, max_retries, calls, outstanding, sleeps,
                    slept, outcomes, logged, rwr, result, caught, diagnosis >>
    /\ UNCHANGED reportVars

\* In the handler, attempts remain: `await asyncio.sleep(2)`, then the next
\* iteration of the loop.
SleepThenRetry ==
    /\ pc = "handler"
    /\ ~IsFinalAttempt(attempt, max_retries)
    /\ sleeps' = sleeps + 1
    /\ slept' = slept + RetryDelay
    /\ attempt' = attempt + 1
    /\ exc' = NoError
    /\ pc' = "loop"
    /\ UNCHANGED << dir, initOther, max_retries, calls, outstanding, outcomes,
                    logged, rwr, result, caught, diagnosis >>
    /\ UNCHANGED reportVars

\* ------------------------------------------------------------ report loop
\* Variant of Branch: the ToolMessage test is missing.
BranchNoTool(msg) ==
    IF msg.type = "HumanMessage" THEN "human"
    ELSE IF msg.type = "AIMessage" THEN "ai"
    ELSE "skip"

\* The isinstance chain `if HumanMessage / elif AIMessage / elif ToolMessage`,
\* which has no else branch.
Branch(msg) ==
    IF msg.type = "HumanMessage" THEN "human"
    ELSE IF msg.type = "AIMessage" THEN "ai"
    ELSE IF msg.type = "ToolMessage" THEN "tool"
    ELSE "skip"

\* Variant of IterToolCalls: msg.tool_calls is read without the hasattr test.
IterToolCallsUnguarded(msg) ==
    IF msg.has_tool_calls
    THEN [raised |-> FALSE, calls |-> msg.tool_calls]
    ELSE [raised |-> TRUE, calls |-> <<>>]

\* `if hasattr(msg, 'tool_calls') and msg.tool_calls:` and the sequence the
\* inner loop then iterates; raised: evaluating it raised an error.
IterToolCalls(msg) ==
    IF msg.has_tool_calls /\ msg.tool_calls # <<>>
    THEN [raised |-> FALSE, calls |-> msg.tool_calls]
    ELSE [raised |-> FALSE, calls |-> <<>>]

\* Variant of IsWriteFile: task calls are recorded too.
IsWriteFileOrTask(tc) == tc.name \in {"write_file", "task"}

\* `if tool_name == 'write_file':`
IsWriteFile(tc) == tc.name = "write_file"

\* The inner loop over one message's tool calls: the calls it appends.
Appended(tcs) == SelectSeq(tcs, IsWriteFile)

\* `result = asyncio.run(...)` is bound, the counters are initialised and
\* `result["messages"]` is evaluated; subscripting None raises TypeError.
ReportStart ==
    /\ pc = "report"
    /\ IF result.isNone
       THEN /\ pc' = "except"
            /\ exc' = Error("Exception", "report", 0)
            /\ idx' = idx
       ELSE /\ pc' = "reportloop"
            /\ exc' = exc
            /\ idx' = 1
    /\ human_count' = 0
    /\ ai_count' = 0
    /\ tool_count' = 0
    /\ write_file_calls' = <<>>
    /\ UNCHANGED << dir, initOther, max_retries, result, summary, caught, diagnosis >>
    /\ UNCHANGED retryVars

\* One iteration of `for msg in result["messages"]`.
ReportMessage ==
    /\ pc = "reportloop"
    /\ idx <= Len(result.messages)
    /\ LET msg == result.messages[idx]
           b == Branch(msg)
           it == IterToolCalls(msg)
       IN  /\ human_count' = IF b = "human" THEN human_count + 1 ELSE human_count
           /\ ai_count' = IF b = "ai" THEN ai_count + 1 ELSE ai_count
           /\ tool_count' = IF b = "tool" THEN tool_count + 1 ELSE tool_count
           /\ IF b = "ai" /\ it.raised
              THEN /\ pc' = "except"
                   /\ exc' = Error("Exception", "report", 0)
                   /\ idx' = idx
                   /\ write_file_calls' = write_file_calls
              ELSE /\ pc' = "reportloop"
                   /\ exc' = exc
                   /\ idx' = idx + 1
                   /\ write_file_calls' =
                        IF b = "ai"
                        THEN write_file_calls \o Appended(it.calls)
                        ELSE write_file_calls
    /\ UNCHANGED << dir, initOther, max_retries, result, summary, caught, diagnosis >>
    /\ UNCHANGED retryVars

\* The loop is exhausted; the summary block prints the counts.
Summary ==
    /\ pc = "reportloop"
    /\ idx > Len(result.messages)
    /\ summary' = [printed |-> TRUE, human |-> human_count, ai |-> ai_count,
                   tool |-> tool_count, write_file |-> Len(write_file_calls)]
    /\ pc' = "files"
    /\ UNCHANGED << dir, initOther, max_retries, result, exc, idx, human_count,
                    ai_count, tool_count, write_file_calls, caught, diagnosis >>
    /\ UNCHANGED retryVars

\* The generated files are looked for, opened and previewed, the directory
\* is listed, and the DIAGNOSIS block is printed when either file is absent.
\* Opening or reading a file that exists may fail with an OSError.
CheckFiles ==
    /\ pc = "files"
    /\ \E fails \in BOOLEAN :
         IF fails /\ (AgentFiles \cap dir) # {}
         THEN /\ pc' = "except"
              /\ exc' = Error("Exception", "open", 0)
              /\ diagnosis' = diagnosis
         ELSE /\ pc' = "done"
              /\ exc' = exc
              /\ diagnosis' =
                   (research_request_path \notin dir \/ final_report_path \notin dir)
    /\ UNCHANGED << dir, initOther, max_retries, result, caught >>
    /\ UNCHANGED retryVars
    /\ UNCHANGED reportVars

\* Variant of OuterExcept: the clause re-raises.
OuterExceptPropagates ==
    /\ pc = "except"
    /\ pc' = "crashed"
    /\ UNCHANGED << dir, initOther, max_retries, result, exc, caught,
                    diagnosis >>
    /\ UNCHANGED retryVars
    /\ UNCHANGED reportVars

\* `except Exception as e:` of the script: print the error and the traceback;
\* the script then ends.
OuterExcept ==
    /\ pc = "except"
    /\ caught' = caught + 1
    /\ pc' = "done"
    /\ UNCHANGED << dir, initOther, max_retries, result, exc, diagnosis >>
    /\ UNCHANGED retryVars
    /\ UNCHANGED reportVars

Next ==
    \/ MakeOutputDir
    \/ CleanUp
    \/ EnterTry
    \/ InvokeAgent
    \/ ReturnNone
    \/ AgentWritesFile
    \/ InvokeSucceeds
    \/ InvokeRaises
    \/ Reraise
    \/ SleepThenRetry
    \/ ReportStart
    \/ ReportMessage
    \/ Summary
    \/ CheckFiles
    \/ OuterExcept

Spec == Init /\ [][Next]_vars

\* ------------------------------------------------------------ properties
\* Number of completed invocations with outcome o.
NumOutcome(o) == Cardinality({ k \in DOMAIN outcomes : outcomes[k] = o })

\* run_with_retry has finished, by returning or by raising.
Finished == rwr \in {"returned", "raised"}

\* C1: when the invocation succeeds on attempt k after failing on attempts
\* 1..k-1, run_with_retry returns the result of attempt k, k invocations have
\* been made, and no invocation follows the successful one.
C1_SuccessOnAttemptK ==
    \A k \in DOMAIN outcomes :
      outcomes[k] = "ok" =>
        /\ k = Len(outcomes)
        /\ k <= max_retries
        /\ \A j \in 1..(k - 1) : outcomes[j] # "ok"
        /\ calls = k
        /\ outstanding = 0
        /\ rwr = "returned"
        /\ ~result.isNone
        /\ result.attempt = k

C1_Witness ==
    /\ pc = "done"
    /\ max_retries = DefaultMaxRetries
    /\ outcomes = << "Exception", "ok" >>
    /\ result.attempt = 2
    /\ calls = 2

\* C2 as stated: when every invocation fails, whatever the error,
\* run_with_retry makes max_retries invocations, then raises the error of the
\* last one, and returns nothing.
C2_AllFail_AsStated ==
    (max_retries >= 1 /\ Finished /\ NumOutcome("ok") = 0) =>
      /\ rwr = "raised"
      /\ calls = max_retries
      /\ exc.origin = "ainvoke"
      /\ exc.attempt = max_retries

\* C2 amended: when every invocation fails with an Exception, run_with_retry
\* makes max_retries invocations, then raises the error of the last one, and
\* returns nothing; an invocation failing with any other BaseException ends
\* run_with_retry at that attempt with that error.
C2_AllFailWithException ==
    /\ (max_retries >= 1 /\ Finished /\ NumOutcome("Exception") = Len(outcomes)) =>
         /\ rwr = "raised"
         /\ calls = max_retries
         /\ exc = Error("Exception", "ainvoke", max_retries)
    /\ (max_retries >= 1 /\ Finished /\ NumOutcome("BaseException") > 0) =>
         /\ rwr = "raised"
         /\ outcomes[Len(outcomes)] = "BaseException"
         /\ exc = Error("BaseException", "ainvoke", calls)

C2_Witness ==
    /\ rwr = "raised"
    /\ max_retries = DefaultMaxRetries
    /\ outcomes = << "Exception", "Exception", "Exception" >>
    /\ calls = DefaultMaxRetries
    /\ exc.attempt = DefaultMaxRetries

\* C3: with max_retries = 0 run_with_retry makes no invocation, waits for no
\* delay, does not raise, and returns None.
C3_ZeroRetries ==
    max_retries = 0 =>
      /\ calls = 0
      /\ outstanding = 0
      /\ outcomes = <<>>
      /\ sleeps = 0
      /\ slept = 0
      /\ logged = 0
      /\ rwr # "raised"
      /\ rwr = "returned" => result.isNone
      /\ pc \notin {"awaiting", "handler"}

C3_Witness ==
    /\ max_retries = 0
    /\ rwr = "returned"
    /\ result = None
    /\ calls = 0

\* C4 as stated: every error an invocation raises, whatever its kind, is
\* logged as a failed attempt, and an error leaves run_with_retry only from
\* the final attempt.
C4_AnyErrorRetried_AsStated ==
    /\ logged = Len(outcomes) - NumOutcome("ok")
    /\ rwr = "raised" => Len(outcomes) = max_retries

\* C4 amended: every Exception an invocation raises is logged as a failed
\* attempt and leaves run_with_retry only from the final attempt; a
\* BaseException that is not an Exception is not logged and leaves
\* run_with_retry from the attempt that raised it.
C4_ExceptionRetried ==
    /\ logged = NumOutcome("Exception")
    /\ (rwr = "raised" /\ exc.kind = "Exception") =>
         /\ Len(outcomes) = max_retries
         /\ exc.attempt = max_retries
    /\ (rwr = "raised" /\ exc.kind = "BaseException") =>
         /\ exc.attempt = Len(outcomes)
         /\ logged = Len(outcomes) - 1
    /\ (Finished /\ Len(outcomes) < max_retries) =>
         outcomes[Len(outcomes)] # "Exception"

C4_Witness ==
    /\ rwr = "returned"
    /\ outcomes = << "Exception", "Exception", "ok" >>
    /\ logged = 2
    /\ calls = 3

\* The script has ended: normally, or with an error leaving it.
Ended == pc \in {"done", "crashed"}

\* C5 as stated: every failure while the script runs, output-directory
\* creation and clean-up included, is caught once by the outermost except
\* clause, after which the script ends normally; no error leaves the script.
C5_EveryFailureCaught_AsStated ==
    /\ pc # "crashed"
    /\ (Ended /\ exc.kind # "none") => caught = 1

\* C5 amended: an Exception raised inside the try block (by run_with_retry,
\* the report or the output-file checks) is caught once by the outermost
\* except clause and the script ends normally; an error of mkdir or of the
\* clean-up loop, which precede the try block, and a BaseException that is
\* not an Exception leave the script uncaught.
C5_TryBlockExceptionCaught ==
    /\ caught <= 1
    /\ (Ended /\ exc.kind = "Exception" /\ exc.origin \in {"ainvoke", "report", "open"}) =>
         (pc = "done" /\ caught = 1)
    /\ (exc.origin \in {"mkdir", "unlink"} \/ exc.kind = "BaseException") =>
         (pc = "crashed" /\ caught = 0)
    /\ pc = "crashed" =>
         (exc.origin \in {"mkdir", "unlink"} \/ exc.kind = "BaseException")
    /\ caught = 1 => (exc.kind = "Exception" /\ pc = "done")

C5_Witness ==
    /\ pc = "done"
    /\ caught = 1
    /\ rwr = "raised"
    /\ exc = Error("Exception", "ainvoke", max_retries)

\* The messages of the three classes the report tests for.
IsCounted(msg) == msg.type \in {"HumanMessage", "AIMessage", "ToolMessage"}

NumOfType(msgs, t) == Cardinality({ i \in DOMAIN msgs : msgs[i].type = t })

LacksToolCalls(msg) ==
    /\ msg.type = "AIMessage"
    /\ (~msg.has_tool_calls \/ msg.tool_calls = <<>>)

\* C7: the report step on an agent-authored message without tool-call data
\* raises nothing, adds one to ai_count, leaves write_file_calls as it is and
\* goes on to the next message.
C7_NoToolCallsNoError ==
    [][ ( /\ pc = "reportloop"
          /\ idx <= Len(result.messages)
          /\ LacksToolCalls(result.messages[idx]) )
        => ( /\ pc' = "reportloop"
             /\ idx' = idx + 1
             /\ ai_count' = ai_count + 1
             /\ human_count' = human_count
             /\ tool_count' = tool_count
             /\ write_file_calls' = write_file_calls
             /\ exc' = exc ) ]_vars

C7_Witness ==
    /\ pc = "reportloop"
    /\ Len(result.messages) = 2
    /\ idx = 2
    /\ LacksToolCalls(result.messages[1])
    /\ ~result.messages[1].has_tool_calls
    /\ ai_count = 1
    /\ write_file_calls = <<>>

\* The tool invocations named write_file of one list of tool calls, in order.
RECURSIVE WritesIn(_)
WritesIn(tcs) ==
    IF tcs = <<>> THEN <<>>
    ELSE IF Head(tcs).name = "write_file"
         THEN << Head(tcs) >> \o WritesIn(Tail(tcs))
         ELSE WritesIn(Tail(tcs))

\* The same over the agent-authored messages of a sequence, in message order.
RECURSIVE WritesOf(_)
WritesOf(msgs) ==
    IF msgs = <<>> THEN <<>>
    ELSE LET m == Head(msgs)
         IN  (IF m.type = "AIMessage" /\ m.has_tool_calls
              THEN WritesIn(m.tool_calls)
              ELSE <<>>) \o WritesOf(Tail(msgs))

C9_NoMarkdownAtFirstInvocation ==
    [][ (calls = 0 /\ calls' = 1)
        => ( /\ pc' = "awaiting"
             /\ { f \in dir' : f.suffix = ".md" } = {}
             /\ dir' = initOther' ) ]_vars

C9_Witness ==
    /\ pc = "awaiting"
    /\ calls = 1
    /\ dir = { FileName("data", ".txt") }
    /\ initOther = dir

\* C10: attempts are sequential, at most one invocation is outstanding, each
\* attempt after the first starts after the one before it raised and one
\* delay of 2 time units elapsed, and no delay follows a successful attempt
\* or the final failed one.
C10_SequentialAttempts ==
    /\ outstanding <= 1
    /\ outstanding = 1 <=> pc = "awaiting"
    /\ slept = 2 * sleeps
    /\ pc = "awaiting" =>
         /\ Len(outcomes) = calls - 1
         /\ NumOutcome("Exception") = calls - 1
         /\ sleeps = calls - 1
    /\ pc = "handler" => sleeps = calls - 1
    /\ (Finished /\ calls >= 1) => sleeps = calls - 1
    /\ calls = 0 => sleeps = 0

C10_Witness ==
    /\ pc = "awaiting"
    /\ calls = 3
    /\ outstanding = 1
    /\ sleeps = 2
    /\ slept = 4
====
